---- MODULE Spec2Model ----
(***************************************************************************)
(* Timezone Converter API (timezone_backend/src/api/main.py).              *)
(*                                                                         *)
(* Three endpoints served by any number of workers: GET / (health_check),  *)
(* GET /timezones (list_timezones) and POST /convert-time (convert_time),  *)
(* the last one behind the validators of TimeConversionRequest.            *)
(*                                                                         *)
(* Parsing (datetime.strptime) and formatting (datetime.strftime) are      *)
(* computed character by character on strings (Len, SubSeq and \o of       *)
(* Sequences).  A naive datetime is a record of its fields, a              *)
(* timedelta a number of minutes (every offset of the zone tables is a     *)
(* whole number of minutes, and the format has no seconds).  An operation  *)
(* that can raise returns Ok(value) or Raise(type, message).               *)
(***************************************************************************)
EXTENDS Integers, Sequences, FiniteSets, TLC

VARIABLES pc, req, resp, zeroPadYear

vars == <<pc, req, resp, zeroPadYear>>

(***************************************************************************)
(* Results and exceptions                                                  *)
(***************************************************************************)
Ok(v) == [ok |-> TRUE, val |-> v]

Raise(t, m) == [ok |-> FALSE, type |-> t, msg |-> m]

\* r's value handed on to Then, or r's exception passed up
Bind(r, Then(_)) == IF r.ok THEN Then(r.val) ELSE r

SetMin(S) == CHOOSE x \in S : \A y \in S : x <= y

SetMax(S) == CHOOSE x \in S : \A y \in S : y <= x

(***************************************************************************)
(* datetime: the proleptic Gregorian calendar of Python's datetime         *)
(***************************************************************************)
MINYEAR == 1

\* date.max.toordinal()
MAXORDINAL == 3652059

MinutesPerDay == 1440

IsLeap(y) == y % 4 = 0 /\ (y % 100 # 0 \/ y % 400 = 0)

DaysInMonth(y, m) ==
    IF m = 2 THEN (IF IsLeap(y) THEN 29 ELSE 28)
    ELSE IF m \in {4, 6, 9, 11} THEN 30 ELSE 31

DaysBeforeYear(y) ==
    ((y - 1) * 365) + ((y - 1) \div 4) - ((y - 1) \div 100) + ((y - 1) \div 400)

RECURSIVE DaysBeforeMonth(_, _)
DaysBeforeMonth(y, m) ==
    IF m = 1 THEN 0 ELSE DaysBeforeMonth(y, m - 1) + DaysInMonth(y, m - 1)

\* datetime.toordinal(): 0001-01-01 is day 1
ToOrdinal(dt) == DaysBeforeYear(dt.year) + DaysBeforeMonth(dt.year, dt.month) + dt.day

\* date.fromordinal(n), for 1 <= n <= MAXORDINAL (ord_to_ymd)
OrdToYmd(n) ==
    LET n0   == n - 1
        n400 == n0 \div 146097
        r400 == n0 % 146097
        n100 == r400 \div 36524
        r100 == r400 % 36524
        n4   == r100 \div 1461
        r4   == r100 % 1461
        n1   == r4 \div 365
        r1   == r4 % 365
        y    == (n400 * 400) + 1 + (n100 * 100) + (n4 * 4) + n1
    IN  IF n1 = 4 \/ n100 = 4
        THEN [year |-> y - 1, month |-> 12, day |-> 31]
        ELSE LET m == SetMax({k \in 1..12 : DaysBeforeMonth(y, k) <= r1})
             IN  [year |-> y, month |-> m, day |-> r1 - DaysBeforeMonth(y, m) + 1]

DateTime(y, mo, d, h, mi) ==
    [year |-> y, month |-> mo, day |-> d, hour |-> h, minute |-> mi]

MinuteOfDay(dt) == (dt.hour * 60) + dt.minute

\* naive datetime comparison (field by field, most significant first)
DtLeq(a, b) ==
    \/ ToOrdinal(a) < ToOrdinal(b)
    \/ ToOrdinal(a) = ToOrdinal(b) /\ MinuteOfDay(a) <= MinuteOfDay(b)

\* datetime + timedelta(minutes=k): OverflowError outside 0001-01-01 .. 9999-12-31
AddMinutes(dt, k) ==
    LET total == MinuteOfDay(dt) + k
        ord   == ToOrdinal(dt) + (total \div MinutesPerDay)
        mins  == total % MinutesPerDay
    IN  IF ord < 1 \/ ord > MAXORDINAL
        THEN Raise("OverflowError", "date value out of range")
        ELSE LET ymd == OrdToYmd(ord)
             IN  Ok(DateTime(ymd.year, ymd.month, ymd.day, mins \div 60, mins % 60))

(***************************************************************************)
(* datetime.strptime(v, "%Y-%m-%d %H:%M")                                  *)
(*                                                                         *)
(* The format compiles to the regular expression                           *)
(*   (\d\d\d\d)-(1[0-2]|0[1-9]|[1-9])-(3[0-1]|[1-2]\d|0[1-9]|[1-9]| [1-9]) *)
(*   \s+(2[0-3]|[0-1]\d|\d):([0-5]\d|\d)                                   *)
(* matched at the start of the string; text left after the match is an     *)
(* error.  Each field takes its first alternative that matches: a shorter  *)
(* alternative tried on backtracking would need the separator where the    *)
(* longer one found a digit, so backtracking never changes the outcome.    *)
(***************************************************************************)
Digits == <<"0", "1", "2", "3", "4", "5", "6", "7", "8", "9">>

DigitSet == {Digits[i] : i \in 1..10}

DigitsFrom(a, b) == {Digits[i + 1] : i \in a..b}

Whitespace == {" ", "\t"}

Char(s, i) == SubSeq(s, i, i)

DigitVal(c) == (CHOOSE i \in 1..10 : Digits[i] = c) - 1

\* int() of the characters s[i..j-1]; a leading space (the " [1-9]" day) is skipped
RECURSIVE ToInt(_, _, _)
ToInt(s, i, j) ==
    IF i >= j THEN 0
    ELSE IF Char(s, j - 1) \in DigitSet
         THEN (10 * ToInt(s, i, j - 1)) + DigitVal(Char(s, j - 1))
    ELSE ToInt(s, i, j - 1)

\* length of the first alternative of alts (sequences of character classes)
\* that matches s at position i; 0 when none does
MatchAlt(s, i, alts) ==
    LET fits(a) == /\ i + Len(a) - 1 <= Len(s)
                   /\ \A k \in 1..Len(a) : Char(s, i + k - 1) \in a[k]
        hits    == {j \in 1..Len(alts) : fits(alts[j])}
    IN  IF hits = {} THEN 0 ELSE Len(alts[SetMin(hits)])

Lit(c) == << <<{c}>> >>

Re_Y == << <<DigitSet, DigitSet, DigitSet, DigitSet>> >>

Re_m == << <<{"1"}, DigitsFrom(0, 2)>>, <<{"0"}, DigitsFrom(1, 9)>>, <<DigitsFrom(1, 9)>> >>

Re_d == << <<{"3"}, DigitsFrom(0, 1)>>, <<DigitsFrom(1, 2), DigitSet>>,
           <<{"0"}, DigitsFrom(1, 9)>>, <<DigitsFrom(1, 9)>>, <<{" "}, DigitsFrom(1, 9)>> >>

Re_H == << <<{"2"}, DigitsFrom(0, 3)>>, <<DigitsFrom(0, 1), DigitSet>>, <<DigitSet>> >>

Re_M == << <<DigitsFrom(0, 5), DigitSet>>, <<DigitSet>> >>

\* \s+ at position i: the number of whitespace characters taken (greedy)
RECURSIVE MatchSpaces(_, _)
MatchSpaces(s, i) ==
    IF i <= Len(s) /\ Char(s, i) \in Whitespace THEN 1 + MatchSpaces(s, i + 1) ELSE 0

\* \s+ among the pattern's elements: no alternatives of fixed length
Re_ws == <<>>

\* the pattern's elements in order
TimePattern == <<Re_Y, Lit("-"), Re_m, Lit("-"), Re_d, Re_ws, Re_H, Lit(":"), Re_M>>

\* the positions after each element of the pattern matched so far, starting
\* with ends[1] = 1; a final 0 marks an element that failed to match
RECURSIVE MatchFrom(_, _, _)
MatchFrom(s, k, ends) ==
    IF k > Len(TimePattern) THEN ends
    ELSE LET i == ends[Len(ends)]
             n == IF TimePattern[k] = Re_ws THEN MatchSpaces(s, i)
                  ELSE MatchAlt(s, i, TimePattern[k])
         IN  IF n = 0 THEN Append(ends, 0)
             ELSE MatchFrom(s, k + 1, Append(ends, i + n))

strptime(s) ==
    LET e == MatchFrom(s, 1, <<1>>)
    IN  IF e[Len(e)] = 0
        THEN Raise("ValueError", "time data does not match format '%Y-%m-%d %H:%M'")
        ELSE IF e[Len(e)] # Len(s) + 1
        THEN Raise("ValueError", "unconverted data remains")
        ELSE LET y  == ToInt(s, e[1], e[2])
                 mo == ToInt(s, e[3], e[4])
                 d  == ToInt(s, e[5], e[6])
                 h  == ToInt(s, e[7], e[8])
                 mi == ToInt(s, e[9], e[10])
             IN  IF y < MINYEAR
                 THEN Raise("ValueError", "year 0 is out of range")
                 ELSE IF d > DaysInMonth(y, mo)
                 THEN Raise("ValueError", "day is out of range for month")
                 ELSE Ok(DateTime(y, mo, d, h, mi))

(***************************************************************************)
(* datetime.strftime("%Y-%m-%d %H:%M")                                     *)
(*                                                                         *)
(* %m %d %H %M are two digits.  %Y is the C library's: glibc writes the    *)
(* year without padding ("999"), other libraries and later interpreters    *)
(* pad it to four digits ("0999"); zeroPadYear is which one runs.          *)
(***************************************************************************)
RECURSIVE Decimal(_)
Decimal(n) ==
    IF n < 10 THEN Digits[n + 1] ELSE Decimal(n \div 10) \o Digits[(n % 10) + 1]

RECURSIVE ZeroPad(_, _)
ZeroPad(s, width) == IF Len(s) >= width THEN s ELSE ZeroPad("0" \o s, width)

strftime(dt) ==
    (IF zeroPadYear THEN ZeroPad(Decimal(dt.year), 4) ELSE Decimal(dt.year))
    \o "-" \o ZeroPad(Decimal(dt.month), 2)
    \o "-" \o ZeroPad(Decimal(dt.day), 2)
    \o " " \o ZeroPad(Decimal(dt.hour), 2)
    \o ":" \o ZeroPad(Decimal(dt.minute), 2)

(***************************************************************************)
(* pytz: the timezone database                                             *)
(*                                                                         *)
(* A zone of class DstTzInfo holds _utc_transition_times (naive UTC) and,  *)
(* index for index, _transition_info (utcoffset, dst, tzname), offsets     *)
(* rounded to whole minutes; its table starts at 0001-01-01 with local     *)
(* mean time.  ZoneDB is an excerpt of the database: of each zone it keeps *)
(* the first and the last rule and the transitions that frame the          *)
(* timestamps of TimeStrings, so that every one of them is localized as    *)
(* the full table localizes it.                                            *)
(***************************************************************************)
Info(off, d, name) == [utcoffset |-> off, dst |-> d, tzname |-> name]

ZoneDB ==
    [z \in {"America/New_York", "Asia/Kolkata", "UTC"} |->
        CASE z = "America/New_York" ->
               [class |-> "DstTzInfo",
                utc_transition_times |->
                    <<DateTime(1, 1, 1, 0, 0),       DateTime(1883, 11, 18, 17, 0),
                      DateTime(2023, 3, 12, 7, 0),   DateTime(2023, 11, 5, 6, 0)>>,
                transition_info |->
                    <<Info(-296, 0, "LMT"),          Info(-300, 0, "EST"),
                      Info(-240, 60, "EDT"),         Info(-300, 0, "EST")>>]
          [] z = "Asia/Kolkata" ->
               [class |-> "DstTzInfo",
                utc_transition_times |->
                    <<DateTime(1, 1, 1, 0, 0),       DateTime(1945, 10, 14, 17, 30)>>,
                transition_info |->
                    <<Info(353, 0, "LMT"),           Info(330, 0, "IST")>>]
          [] z = "UTC" ->
               [class |-> "UTC",
                utc_transition_times |-> <<>>,
                transition_info |-> <<Info(0, 0, "UTC")>>]]

\* pytz.all_timezones: the identifiers of the database, in its (sorted) order
all_timezones == <<"America/New_York", "Asia/Kolkata", "UTC">>

InList(v, list) == \E i \in 1..Len(list) : list[i] = v

\* a tzinfo instance: a zone holds one instance per distinct transition info
TzInfo(zone, inf) ==
    [zone |-> zone, utcoffset |-> inf.utcoffset, dst |-> inf.dst, tzname |-> inf.tzname]

\* an aware datetime: the naive fields and the tzinfo attached
Aware(dt, tz) == [naive |-> dt, tzinfo |-> tz]

\* pytz.timezone(zone): the zone's own instance, the one of its first
\* transition info (pytz.utc for UTC); every zone reaching it has passed
\* validate_timezone
pytz_timezone(zone) ==
    IF zone \in DOMAIN ZoneDB
    THEN Ok(TzInfo(zone, ZoneDB[zone].transition_info[1]))
    ELSE Raise("UnknownTimeZoneError", "'" \o zone \o "'")

\* _transition_info[max(0, bisect_right(_utc_transition_times, dt) - 1)]
InfoAt(zone, dt) ==
    LET times == ZoneDB[zone].utc_transition_times
        n     == Cardinality({i \in 1..Len(times) : DtLeq(times[i], dt)})
    IN  ZoneDB[zone].transition_info[IF n < 1 THEN 1 ELSE n]

\* (dt + inf[0]).replace(tzinfo=self._tzinfos[inf])
AttachShifted(zone, dt, inf) ==
    Bind(AddMinutes(dt, inf.utcoffset), LAMBDA local : Ok(Aware(local, TzInfo(zone, inf))))

\* DstTzInfo.fromutc(dt), dt the naive UTC time
DstFromutc(zone, dt) == AttachShifted(zone, dt, InfoAt(zone, dt))

\* tzinfo.fromutc(dt) of the zone's class
fromutc(zone, dt) ==
    IF ZoneDB[zone].class = "UTC"
    THEN Ok(Aware(dt, TzInfo(zone, ZoneDB[zone].transition_info[1])))
    ELSE DstFromutc(zone, dt)

\* DstTzInfo.normalize(dt): to UTC by the attached offset, and back
normalize(zone, adt) ==
    Bind(AddMinutes(adt.naive, 0 - adt.tzinfo.utcoffset), LAMBDA utc : DstFromutc(zone, utc))

\* one round of localize's loop: dt with the transition info in force at
\* dt + delta, kept when normalizing leaves its wall time alone
LocalizeTry(zone, dt, delta) ==
    Bind(AddMinutes(dt, delta), LAMBDA loc_dt :
        Bind(normalize(zone, Aware(dt, TzInfo(zone, InfoAt(zone, loc_dt)))), LAMBDA norm :
            Ok(IF norm.naive = dt THEN {norm} ELSE {})))

\* localize's loop over timedelta(days=-1) and timedelta(days=1): the set
\* possible_loc_dt, or the first exception
LocalizeCandidates(zone, dt) ==
    Bind(LocalizeTry(zone, dt, 0 - MinutesPerDay), LAMBDA before :
        Bind(LocalizeTry(zone, dt, MinutesPerDay), LAMBDA after :
            Ok(before \cup after)))

\* localize with several candidates (an ambiguous wall time): those whose
\* dst agrees with is_dst, and of several (or none) left the earliest in UTC
\* when is_dst, the latest when not.  The candidates of one zone differ in
\* utcoffset, so of two with the same wall time the later in UTC has the
\* smaller offset.
LocalizeAmbiguous(possible, is_dst) ==
    LET filtered == {p \in possible : (p.tzinfo.dst # 0) = is_dst}
        guess    == IF filtered = {} THEN possible ELSE filtered
        offsets  == {p.tzinfo.utcoffset : p \in guess}
        pick     == IF is_dst THEN SetMax(offsets) ELSE SetMin(offsets)
    IN  CHOOSE p \in guess : p.tzinfo.utcoffset = pick

\* localized + timedelta(minutes=k): the wall time moves, the tzinfo stays
ShiftAware(r, k) ==
    Bind(r, LAMBDA adt :
        Bind(AddMinutes(adt.naive, k), LAMBDA moved : Ok(Aware(moved, adt.tzinfo))))

\* DstTzInfo.localize(dt, is_dst), is_dst a boolean (the handler leaves the
\* default, False).  With no candidate (a wall time that never happened) the
\* clock is wound six hours forward (is_dst) or back (not is_dst), localized
\* there, and wound back again.
RECURSIVE DstLocalize(_, _, _)
DstLocalize(zone, dt, is_dst) ==
    Bind(LocalizeCandidates(zone, dt), LAMBDA possible :
        IF Cardinality(possible) = 1 THEN Ok(CHOOSE p \in possible : TRUE)
        ELSE IF possible # {} THEN Ok(LocalizeAmbiguous(possible, is_dst))
        ELSE Bind(AddMinutes(dt, IF is_dst THEN 360 ELSE -360), LAMBDA moved :
                ShiftAware(DstLocalize(zone, moved, is_dst), IF is_dst THEN -360 ELSE 360)))

\* localize as dt.replace(tzinfo=tz) would do it: the zone's own instance,
\* with the offset of its first rule, whatever the date
localize_by_replace(tz, dt) == Ok(Aware(dt, tz))

\* src_tz.localize(dt): pytz.utc attaches itself, a DstTzInfo searches its table
localize(tz, dt) ==
    IF ZoneDB[tz.zone].class = "UTC"
    THEN Ok(Aware(dt, tz))
    ELSE DstLocalize(tz.zone, dt, FALSE)

\* astimezone taking the wall time for UTC: tz.fromutc(self), the source
\* offset never subtracted
astimezone_of_wall_time(adt, tz) == fromutc(tz.zone, adt.naive)

\* datetime.astimezone(tz): the same object when tz is the attached tzinfo,
\* else (self - offset) handed to tz.fromutc
astimezone(adt, tz) ==
    IF tz = adt.tzinfo THEN Ok(adt)
    ELSE Bind(AddMinutes(adt.naive, 0 - adt.tzinfo.utcoffset), LAMBDA utc :
            fromutc(tz.zone, utc))

(***************************************************************************)
(* TimeConversionRequest: the validators of the request body               *)
(***************************************************************************)
validate_time_format(v) ==
    IF strptime(v).ok THEN Ok(v)
    ELSE Raise("ValueError", "time must be in format 'YYYY-MM-DD HH:MM' (24hr)")

\* a validator that lets every name through
validate_timezone_unchecked(v) == Ok(v)

validate_timezone(v) ==
    IF ~InList(v, all_timezones)
    THEN Raise("ValueError", v \o " is not a recognized timezone.")
    ELSE Ok(v)

FieldError(loc, r) == IF r.ok THEN <<>> ELSE <<[loc |-> loc, msg |-> r.msg]>>

\* every field is validated, in the order of declaration; the errors are collected
ValidationErrors(body) ==
    FieldError("time", validate_time_format(body.time))
    \o FieldError("source_timezone", validate_timezone(body.source_timezone))
    \o FieldError("target_timezone", validate_timezone(body.target_timezone))

(***************************************************************************)
(* Responses                                                               *)
(***************************************************************************)
Response(status, body) == [status |-> status, body |-> body]

NoResponse == Response(0, <<>>)

\* a request body failing validation never reaches the handler: the
\* framework answers 422 with the validators' errors
ValidationErrorResponse(errors) == Response(422, [detail |-> errors])

HTTPException(status, detail) == Response(status, [detail |-> detail])

\* an exception no handler catches
InternalServerError == Response(500, [detail |-> "Internal Server Error"])

ExceptionTypes == {"ValueError", "OverflowError", "UnknownTimeZoneError"}

\* "except ValueError": OverflowError is an ArithmeticError, not a ValueError
except_ValueError(type) == type = "ValueError"

\* "except Exception": every exception type raised here derives from Exception
except_Exception(type) == type \in ExceptionTypes

(***************************************************************************)
(* The endpoints                                                           *)
(***************************************************************************)
health_check == Response(200, [message |-> "Healthy"])

list_timezones == Response(200, [timezones |-> all_timezones])

\* the try block of convert_time: the TimeConversionResponse, or the first
\* exception raised
TryConvert(request) ==
    Bind(strptime(request.time), LAMBDA input_dt_naive :
    Bind(pytz_timezone(request.source_timezone), LAMBDA src_tz :
    Bind(pytz_timezone(request.target_timezone), LAMBDA tgt_tz :
    Bind(localize(src_tz, input_dt_naive), LAMBDA input_dt :
    Bind(astimezone(input_dt, tgt_tz), LAMBDA converted_dt :
        Ok([original_time   |-> strftime(input_dt.naive),
            converted_time  |-> strftime(converted_dt.naive),
            source_timezone |-> request.source_timezone,
            target_timezone |-> request.target_timezone]))))))

\* convert_time reading the request from a module-level variable that every
\* worker writes on arrival: a request that arrived meanwhile is converted
\* in place of the worker's own
convert_time_shared(request) ==
    LET newer == {w \in DOMAIN pc : /\ pc[w] \in {"received", "handler"}
                                    /\ req[w].endpoint = "POST /convert-time"
                                    /\ req[w].body # request}
        r     == TryConvert(IF newer = {} THEN request ELSE req[CHOOSE w \in newer : TRUE].body)
    IN  IF r.ok THEN Response(200, r.val)
        ELSE HTTPException(400, "Invalid input or time zone error: " \o r.msg)

convert_time(request) ==
    LET r == TryConvert(request)
    IN  IF r.ok THEN Response(200, r.val)
        ELSE IF except_Exception(r.type)
        THEN HTTPException(400, "Invalid input or time zone error: " \o r.msg)
        ELSE InternalServerError

(***************************************************************************)
(* Requests                                                                *)
(***************************************************************************)
\* the timestamps sent: well-formed ones at the edges of the calendar and of
\* the zones' rules, loosely written ones, and malformed ones
TimeStrings ==
    { "2023-07-15 12:00",     \* a summer noon
      "2023-03-12 02:30",     \* inside New York's spring-forward gap
      "2023-03-12 07:30",     \* the half hour after that transition, in UTC
      "2023-11-05 01:30",     \* inside New York's fall-back overlap
      "2023-11-05 05:30",     \* the first 01:30 of that night, in UTC
      "2023-12-31 23:30",     \* the year turns in zones east of the source
      "2024-02-29 12:00",     \* a leap day
      "1883-11-18 12:02",     \* New York's change from local mean time
      "0999-06-01 12:00",     \* a year of three digits
      "0001-01-01 00:00",     \* datetime.min
      "0001-01-02 03:00",
      "9999-12-31 10:00",     \* the last day of the calendar
      "9999-12-31 23:59",     \* datetime.max, to the minute
      "2023-7-5 1:2",         \* fields without their leading zeros
      "2023-07-15  12:00",    \* two spaces
      "2023-07-15\t12:00",    \* a tab
      "15-07-2023 12:00",     \* day first
      "2023/07/15 12:00",     \* other separators
      "2023-07-15 12:00 PM",  \* a 12-hour marker
      "2023-07-15 24:00",     \* hour out of range
      "2023-07-15 12:60",     \* minute out of range
      "2023-13-15 12:00",     \* month out of range
      "2023-02-30 12:00",     \* day out of range for the month
      "0000-01-01 00:00",     \* year 0
      "999-06-01 12:00",      \* a year written with three digits
      "" }

ZoneNames == {"UTC", "Asia/Kolkata", "America/New_York", "Mars/Phobos", "utc"}

ConversionBodies ==
    [time : TimeStrings, source_timezone : ZoneNames, target_timezone : ZoneNames]

\* a GET carries no body
NoBody == [time |-> "", source_timezone |-> "", target_timezone |-> ""]

Request(endpoint, body) == [endpoint |-> endpoint, body |-> body]

NoRequest == Request("", NoBody)

Requests ==
    {Request("GET /", NoBody), Request("GET /timezones", NoBody)}
    \cup {Request("POST /convert-time", b) : b \in ConversionBodies}

\* the requests the workers of SpecServe are sent
ServeRequests ==
    {Request("GET /", NoBody), Request("GET /timezones", NoBody)}
    \cup {Request("POST /convert-time", b) :
            b \in [time : {"2023-07-15 12:00", "9999-12-31 23:59", "15-07-2023 12:00"},
                   source_timezone : {"UTC"},
                   target_timezone : {"Asia/Kolkata", "UTC", "Mars/Phobos"}]}

(***************************************************************************)
(* The service: each worker takes a request, routes it, answers it         *)
(***************************************************************************)
Workers == DOMAIN pc

Answer(w, r) ==
    /\ resp' = [resp EXCEPT ![w] = r]
    /\ pc' = [pc EXCEPT ![w] = "done"]
    /\ UNCHANGED <<req, zeroPadYear>>

\* a request arrives at worker w
Receive(w, R) ==
    /\ pc[w] = "idle"
    /\ \E r \in R : req' = [req EXCEPT ![w] = r]
    /\ pc' = [pc EXCEPT ![w] = "received"]
    /\ UNCHANGED <<resp, zeroPadYear>>

\* GET /
HealthCheck(w) ==
    /\ pc[w] = "received"
    /\ req[w].endpoint = "GET /"
    /\ Answer(w, health_check)

\* GET /timezones
ListTimezones(w) ==
    /\ pc[w] = "received"
    /\ req[w].endpoint = "GET /timezones"
    /\ Answer(w, list_timezones)

\* POST /convert-time: the body is validated into a TimeConversionRequest
\* before the handler is called
ValidateRequest(w) ==
    /\ pc[w] = "received"
    /\ req[w].endpoint = "POST /convert-time"
    /\ LET errors == ValidationErrors(req[w].body)
       IN  IF errors # <<>>
           THEN Answer(w, ValidationErrorResponse(errors))
           ELSE /\ pc' = [pc EXCEPT ![w] = "handler"]
                /\ UNCHANGED <<req, resp, zeroPadYear>>

\* POST /convert-time: the handler
ConvertTime(w) ==
    /\ pc[w] = "handler"
    /\ Answer(w, convert_time(req[w].body))

\* the response is sent and the worker is free again
Deliver(w) ==
    /\ pc[w] = "done"
    /\ pc' = [pc EXCEPT ![w] = "idle"]
    /\ req' = [req EXCEPT ![w] = NoRequest]
    /\ resp' = [resp EXCEPT ![w] = NoResponse]
    /\ UNCHANGED zeroPadYear

\* workers of SpecServe
NumWorkers == 2

InitWorkers(W) ==
    /\ pc = [w \in W |-> "idle"]
    /\ req = [w \in W |-> NoRequest]
    /\ resp = [w \in W |-> NoResponse]
    /\ zeroPadYear \in BOOLEAN

\* one worker, every request of Requests
Init == InitWorkers({1})

Next ==
    \/ \E w \in Workers : Receive(w, Requests)
    \/ \E w \in Workers : HealthCheck(w)
    \/ \E w \in Workers : ListTimezones(w)
    \/ \E w \in Workers : ValidateRequest(w)
    \/ \E w \in Workers : ConvertTime(w)
    \/ \E w \in Workers : Deliver(w)

Spec == Init /\ [][Next]_vars

\* NumWorkers workers, interleaved, on the requests of ServeRequests
InitServe == InitWorkers(1..NumWorkers)

NextServe ==
    \/ \E w \in Workers : Receive(w, ServeRequests)
    \/ \E w \in Workers : HealthCheck(w)
    \/ \E w \in Workers : ListTimezones(w)
    \/ \E w \in Workers : ValidateRequest(w)
    \/ \E w \in Workers : ConvertTime(w)
    \/ \E w \in Workers : Deliver(w)

SpecServe == InitServe /\ [][NextServe]_vars

(***************************************************************************)
(* What the claims speak of                                                *)
(***************************************************************************)
\* worker w holds the response to a POST /convert-time
Converted(w) == pc[w] = "done" /\ req[w].endpoint = "POST /convert-time"

\* the zone's wall clock at the UTC time u, read off the zone's table
WallTime(zone, u) == AddMinutes(u, InfoAt(zone, u).utcoffset)

\* the UTC times at which the zone's wall clock shows dt: none inside a gap,
\* two inside an overlap
Instants(zone, dt) ==
    LET infos == {ZoneDB[zone].transition_info[i] :
                    i \in 1..Len(ZoneDB[zone].transition_info)}
        utcs  == {AddMinutes(dt, 0 - inf.utcoffset) : inf \in infos}
    IN  {u.val : u \in {r \in utcs : r.ok /\ WallTime(zone, r.val) = Ok(dt)}}

\* the 422's errors name the field
Rejected(w, field) ==
    /\ resp[w].status = 422
    /\ \E i \in 1..Len(resp[w].body.detail) : resp[w].body.detail[i].loc = field

ErrorPrefix == "Invalid input or time zone error: "

HasErrorDetail(r) ==
    /\ DOMAIN r.body = {"detail"}
    /\ Len(r.body.detail) > Len(ErrorPrefix)
    /\ SubSeq(r.body.detail, 1, Len(ErrorPrefix)) = ErrorPrefix

\* the whole of POST /convert-time for one body: validation, then the handler
PostConvertTime(body) ==
    IF ValidationErrors(body) # <<>>
    THEN ValidationErrorResponse(ValidationErrors(body))
    ELSE convert_time(body)

\* the fixed pattern YYYY-MM-DD HH:MM of a date and a time that exist
StrictFormat(s) ==
    /\ Len(s) = 16
    /\ \A i \in {1, 2, 3, 4, 6, 7, 9, 10, 12, 13, 15, 16} : Char(s, i) \in DigitSet
    /\ Char(s, 5) = "-" /\ Char(s, 8) = "-" /\ Char(s, 11) = " " /\ Char(s, 14) = ":"
    /\ ToInt(s, 1, 5) >= MINYEAR
    /\ ToInt(s, 6, 8) \in 1..12
    /\ ToInt(s, 9, 11) \in 1..DaysInMonth(ToInt(s, 1, 5), ToInt(s, 6, 8))
    /\ ToInt(s, 12, 14) \in 0..23
    /\ ToInt(s, 15, 17) \in 0..59

(***************************************************************************)
(* C1                                                                      *)
(***************************************************************************)
\* C1 as stated: every accepted conversion from a zone to itself answers
\* converted_time = original_time, local times inside a gap or an overlap of
\* the zone included.
C1_IdentityEverywhere ==
    \A w \in Workers :
        (Converted(w) /\ resp[w].status = 200
         /\ req[w].body.source_timezone = req[w].body.target_timezone)
        => resp[w].body.converted_time = resp[w].body.original_time

\* C1 amended: every accepted conversion from a zone to itself answers
\* converted_time = original_time whenever the input is a wall time the zone
\* has shown (it is not inside a gap); inside an overlap it holds as well.
C1_IdentityOutsideGaps ==
    \A w \in Workers :
        (Converted(w) /\ resp[w].status = 200
         /\ req[w].body.source_timezone = req[w].body.target_timezone
         /\ Instants(req[w].body.source_timezone, strptime(req[w].body.time).val) # {})
        => resp[w].body.converted_time = resp[w].body.original_time

\* an identity conversion of a wall time inside New York's overlap
C1_Witness ==
    \E w \in Workers :
        /\ Converted(w) /\ resp[w].status = 200
        /\ req[w].body = [time |-> "2023-11-05 01:30",
                          source_timezone |-> "America/New_York",
                          target_timezone |-> "America/New_York"]
        /\ Cardinality(Instants("America/New_York", DateTime(2023, 11, 5, 1, 30))) = 2
        /\ resp[w].body.converted_time = "2023-11-05 01:30"

(***************************************************************************)
(* C2, C3                                                                  *)
(***************************************************************************)
\* C2: a time string that does not parse, both zones known, is answered with
\* HTTP 400 and the detail "Invalid input or time zone error: <message>".
C2_MalformedTimeIs400 ==
    \A w \in Workers :
        (Converted(w) /\ ~strptime(req[w].body.time).ok
         /\ InList(req[w].body.source_timezone, all_timezones)
         /\ InList(req[w].body.target_timezone, all_timezones))
        => (resp[w].status = 400 /\ HasErrorDetail(resp[w]))

\* C3: a source or target zone that is no known identifier, the time well
\* formed, is answered with HTTP 400 and the detail "Invalid input or time
\* zone error: <message>".
C3_UnknownZoneIs400 ==
    \A w \in Workers :
        (Converted(w) /\ strptime(req[w].body.time).ok
         /\ (~InList(req[w].body.source_timezone, all_timezones)
             \/ ~InList(req[w].body.target_timezone, all_timezones)))
        => (resp[w].status = 400 /\ HasErrorDetail(resp[w]))

(***************************************************************************)
(* C4                                                                      *)
(***************************************************************************)
\* the wall time written in s is shown exactly once by the zone
OutsideTransition(zone, s) ==
    strptime(s).ok => Cardinality(Instants(zone, strptime(s).val)) = 1

\* C4: when t from zone A to zone B is answered with converted_time c, then c
\* from B to A is answered with converted_time equal to the first
\* original_time, whenever neither t in A nor c in B is inside a transition.
C4_RoundTrip ==
    \A w \in Workers :
        (Converted(w) /\ resp[w].status = 200
         /\ OutsideTransition(req[w].body.source_timezone, req[w].body.time)
         /\ OutsideTransition(req[w].body.target_timezone, resp[w].body.converted_time))
        => LET back == PostConvertTime([time |-> resp[w].body.converted_time,
                                        source_timezone |-> req[w].body.target_timezone,
                                        target_timezone |-> req[w].body.source_timezone])
           IN  /\ back.status = 200
               /\ back.body.converted_time = resp[w].body.original_time

(***************************************************************************)
(* C5                                                                      *)
(***************************************************************************)
\* the response's converted_time is the target's wall time at an instant at
\* which the source's wall clock shows the input
ConvertedAtInputInstant(w) ==
    \E u \in Instants(req[w].body.source_timezone, strptime(req[w].body.time).val) :
        /\ WallTime(req[w].body.target_timezone, u).ok
        /\ resp[w].body.converted_time
             = strftime(WallTime(req[w].body.target_timezone, u).val)

\* C5 as stated: for every accepted request converted_time is the target
\* zone's wall time at the instant the input denotes in the source zone.
C5_TargetWallTimeEverywhere ==
    \A w \in Workers :
        (Converted(w) /\ resp[w].status = 200) => ConvertedAtInputInstant(w)

\* C5 amended: for every accepted request whose input is a wall time the
\* source zone has shown (it is not inside a gap), converted_time is the
\* target zone's wall time at an instant at which the source zone shows the
\* input; 2023-07-15 12:00 from UTC to Asia/Kolkata gives 2023-07-15 17:30.
C5_TargetWallTimeOutsideGaps ==
    \A w \in Workers :
        (Converted(w) /\ resp[w].status = 200)
        => /\ Instants(req[w].body.source_timezone, strptime(req[w].body.time).val) # {}
                => ConvertedAtInputInstant(w)
           /\ req[w].body = [time |-> "2023-07-15 12:00", source_timezone |-> "UTC",
                             target_timezone |-> "Asia/Kolkata"]
                => resp[w].body.converted_time = "2023-07-15 17:30"

\* a conversion between two zones with tables, across midnight
C5_Witness ==
    \E w \in Workers :
        /\ Converted(w) /\ resp[w].status = 200
        /\ req[w].body = [time |-> "2023-07-15 12:00",
                          source_timezone |-> "America/New_York",
                          target_timezone |-> "Asia/Kolkata"]
        /\ resp[w].body.converted_time = "2023-07-15 21:30"

(***************************************************************************)
(* C6                                                                      *)
(***************************************************************************)
\* C6: the validator accepts a time string if and only if it matches exactly
\* the pattern YYYY-MM-DD HH:MM with in-range fields.
C6_ExactPattern ==
    \A w \in Workers :
        Converted(w) => (~Rejected(w, "time") <=> StrictFormat(req[w].body.time))

(***************************************************************************)
(* C7                                                                      *)
(***************************************************************************)
\* C7: a string is accepted as source_timezone or target_timezone if and only
\* if it is, character for character, an element of the list GET /timezones
\* returns.
C7_ListedIffAccepted ==
    \A w \in Workers :
        Converted(w)
        => /\ ~Rejected(w, "source_timezone")
                <=> InList(req[w].body.source_timezone, list_timezones.body.timezones)
           /\ ~Rejected(w, "target_timezone")
                <=> InList(req[w].body.target_timezone, list_timezones.body.timezones)

\* "utc" is refused as a source while the listed target passes
C7_Witness ==
    \E w \in Workers :
        /\ Converted(w)
        /\ req[w].body.source_timezone = "utc"
        /\ req[w].body.target_timezone = "Asia/Kolkata"
        /\ Rejected(w, "source_timezone")
        /\ ~Rejected(w, "target_timezone")

(***************************************************************************)
(* C8                                                                      *)
(***************************************************************************)
\* C8: every request that reaches the handler ends either in a 200 with all
\* four fields set or in a 400 whose detail is "Invalid input or time zone
\* error: " followed by the exception's message; no exception escapes.
C8_NoPartialFailure ==
    \A w \in Workers :
        (Converted(w) /\ resp[w].status # 422)
        => \/ /\ resp[w].status = 200
              /\ DOMAIN resp[w].body = {"original_time", "converted_time",
                                        "source_timezone", "target_timezone"}
              /\ \A f \in DOMAIN resp[w].body : Len(resp[w].body[f]) > 0
           \/ /\ resp[w].status = 400
              /\ HasErrorDetail(resp[w])

\* a date overflow in the handler, answered with the 400
C8_Witness ==
    \E w \in Workers :
        /\ Converted(w)
        /\ resp[w] = HTTPException(400, ErrorPrefix \o "date value out of range")

C10_EchoesInput ==
    \A w \in Workers :
        (Converted(w) /\ resp[w].status = 200)
        => /\ resp[w].body.source_timezone = req[w].body.source_timezone
           /\ resp[w].body.target_timezone = req[w].body.target_timezone
           /\ resp[w].body.original_time = req[w].body.time

====
